---- MODULE Spec2Model ----
(***************************************************************************)
(* bevy_lyon: the mesh builder (src/src/mesh_builder.rs) and the shape     *)
(* builders (src/src/shapes.rs).                                           *)
(*                                                                         *)
(* A LyonMeshBuilder owns one vertex/index buffer (geometry).  with(shape) *)
(* wraps the buffer in a fresh sink (buffers_builder) and lets the shape   *)
(* write into it; build / build_with_topology consume the builder and      *)
(* project the buffer into a mesh; with_only composes new, with and build. *)
(*                                                                         *)
(* The tessellation routines and the sink's own bookkeeping belong to the  *)
(* lyon crate.  A shape is therefore described by what its pass writes     *)
(* into the sink: the points of its vertices, its triangles in pass-local  *)
(* numbering, and how the pass ends.                                       *)
(***************************************************************************)
EXTENDS Integers, Sequences, FiniteSets

VARIABLES geometry, prev, added, phase, call, mesh, vc

vars == <<geometry, prev, added, phase, call, mesh, vc>>

(***************************************************************************)
(* Bounds of the model.                                                    *)
(***************************************************************************)
\* Largest number of with calls on one builder.
MaxShapes == 2
\* Largest number of vertices one pass writes.
MaxVerts == 3
\* Coordinates of the points handed to the vertex constructor alone.
MaxCoord == 2

Coord == (0 - MaxCoord) .. MaxCoord
\* First points of the shapes (x and y differ, so that uv order is visible).
Origins == {<<0, 1>>, <<1, 0>>}
\* Per-vertex tessellation attributes (opaque to the adapter).
Attrs == {"attrA", "attrB"}
\* The callback family a pass uses to emit vertices.
Kinds == {"basic", "fill", "stroke"}
\* How a pass ends: normally, with an error after leaving what it wrote,
\* or with an error after abort_geometry.
Outcomes == {"ok", "partial", "abort"}
\* bevy::render::pipeline::PrimitiveTopology
Topologies == {"PointList", "LineList", "LineStrip", "TriangleList", "TriangleStrip"}

None == "None"

(***************************************************************************)
(* Vertex constructor (mesh_builder.rs 112-154).                           *)
(***************************************************************************)
\* Variant: uv taken in the wrong order.
FromPoint_uv_swapped(point) ==
    [pos |-> <<point[1], point[2], 0>>,
     norm |-> <<0, 0, 1>>,
     uv |-> <<point[2], point[1]>>]

\* impl From<math::Point> for BevyVertex
FromPoint(point) ==
    [pos |-> <<point[1], point[2], 0>>,
     norm |-> <<0, 0, 1>>,
     uv |-> <<point[1], point[2]>>]

\* BasicVertexConstructor::new_vertex
new_vertex_basic(point) == FromPoint(point)

\* FillVertexConstructor::new_vertex (the attributes are ignored)
new_vertex_fill(point, attributes) == FromPoint(point)

\* Variant: the stroke callback lets the attributes decide the normal.
new_vertex_stroke_by_attribute(point, attributes) ==
    [FromPoint(point) EXCEPT !.norm = IF attributes = "attrA" THEN <<0, 0, 1>> ELSE <<0, 0, -1>>]

\* StrokeVertexConstructor::new_vertex (the attributes are ignored)
new_vertex_stroke(point, attributes) == FromPoint(point)

\* The constructor a pass of the given kind calls.
NewVertex(kind, point, attributes) ==
    CASE kind = "basic" -> new_vertex_basic(point)
      [] kind = "fill" -> new_vertex_fill(point, attributes)
      [] kind = "stroke" -> new_vertex_stroke(point, attributes)

(***************************************************************************)
(* The buffer and the sink.                                                *)
(***************************************************************************)
\* BevyVertexBuffers::new()
EmptyBuffers == [vertices |-> <<>>, indices |-> <<>>]

\* LyonMeshBuilder::new
New == EmptyBuffers

\* tess::BuffersBuilder::new: the sink starts at the end of what the buffer holds.
BuffersBuilderNew(buffers) ==
    [buffers |-> buffers,
     vertex_offset |-> Len(buffers.vertices),
     index_offset |-> Len(buffers.indices)]

\* Variant: the sink wraps a new buffer instead of the builder's own.
buffers_builder_fresh(g) == BuffersBuilderNew(EmptyBuffers)

\* LyonMeshBuilder::buffers_builder: a fresh sink over the builder's own buffer.
buffers_builder(g) == BuffersBuilderNew(g)

\* GeometryBuilder::begin_geometry
begin_geometry(sink) ==
    [sink EXCEPT !.vertex_offset = Len(sink.buffers.vertices),
                 !.index_offset = Len(sink.buffers.indices)]

\* add_vertex / add_fill_vertex / add_stroke_vertex: push, hand out the id.
add_vertex(sink, kind, point, attributes) ==
    LET vs == Append(sink.buffers.vertices, NewVertex(kind, point, attributes))
    IN [sink |-> [sink EXCEPT !.buffers.vertices = vs],
        id |-> (Len(vs) - 1) - sink.vertex_offset]

\* GeometryBuilder::add_triangle
add_triangle(sink, a, b, c) ==
    [sink EXCEPT !.buffers.indices =
        @ \o <<a + sink.vertex_offset, b + sink.vertex_offset, c + sink.vertex_offset>>]

\* GeometryBuilder::end_geometry (its Count result is not kept)
end_geometry(sink) == sink

\* GeometryBuilder::abort_geometry
abort_geometry(sink) ==
    [sink EXCEPT !.buffers.vertices = SubSeq(@, 1, sink.vertex_offset),
                 !.buffers.indices = SubSeq(@, 1, sink.index_offset)]

(***************************************************************************)
(* Shapes, as the passes they make.                                        *)
(***************************************************************************)
MaxI(a, b) == IF a >= b THEN a ELSE b

\* n vertices starting at `at`, triangulated as a fan; how the pass ends.
Shapes == [at : Origins, n : 0 .. MaxVerts, outcome : Outcomes]

\* The points of the pass's vertices, in the order they are emitted.
Pts(shape) == [j \in 1 .. shape.n |-> <<shape.at[1] + (j - 1), shape.at[2]>>]

\* The pass's triangles, as positions (from 0) among the pass's vertices.
Tris(shape) == [t \in 1 .. MaxI(0, shape.n - 2) |-> <<0, t, t + 1>>]

RECURSIVE AddVertices(_, _, _, _, _)
\* Emit the points left to right; collect the ids the sink hands back.
AddVertices(sink, kind, attributes, pts, ids) ==
    IF pts = <<>> THEN [sink |-> sink, ids |-> ids]
    ELSE LET r == add_vertex(sink, kind, Head(pts), attributes)
         IN AddVertices(r.sink, kind, attributes, Tail(pts), Append(ids, r.id))

RECURSIVE AddTriangles(_, _, _)
\* Emit each triangle with the ids that were handed out for its corners.
AddTriangles(sink, ids, tris) ==
    IF tris = <<>> THEN sink
    ELSE LET t == Head(tris)
         IN AddTriangles(add_triangle(sink, ids[t[1] + 1], ids[t[2] + 1], ids[t[3] + 1]),
                         ids, Tail(tris))

\* One pass of a tessellation routine: begin_geometry, the vertices and
\* triangles, then end_geometry, or an error with or without abort_geometry.
Tessellate(shape, kind, attributes, sink) ==
    LET s0 == begin_geometry(sink)
        r1 == AddVertices(s0, kind, attributes, Pts(shape), <<>>)
        s2 == AddTriangles(r1.sink, r1.ids, Tris(shape))
    IN CASE shape.outcome = "ok" -> [sink |-> end_geometry(s2), result |-> "Ok"]
         [] shape.outcome = "partial" -> [sink |-> s2, result |-> "Err"]
         [] shape.outcome = "abort" -> [sink |-> abort_geometry(s2), result |-> "Err"]

\* LyonShapeBuilder::build: `let _ = basic_shapes::...(.., builder)`, or the
\* closure call; the routine's result is dropped, only the sink is written.
ShapeBuild(shape, kind, attributes, sink) ==
    Tessellate(shape, kind, attributes, sink).sink

\* Variant: the shape is tessellated on its own and appended as it is.
with_no_offset(g, shape, kind, attributes) ==
    LET alone == ShapeBuild(shape, kind, attributes, buffers_builder(EmptyBuffers)).buffers
    IN [vertices |-> g.vertices \o alone.vertices, indices |-> g.indices \o alone.indices]

\* Variant: the indices the sink stored are offset a second time.
with_double_offset(g, shape, kind, attributes) ==
    LET r == ShapeBuild(shape, kind, attributes, buffers_builder(g)).buffers
    IN [r EXCEPT !.indices =
           [i \in 1 .. Len(r.indices) |->
               IF i <= Len(g.indices) THEN r.indices[i]
               ELSE r.indices[i] + Len(g.vertices)]]

\* Variant: a failed pass is undone before the builder is returned.
with_rollback(g, shape, kind, attributes) ==
    LET t == Tessellate(shape, kind, attributes, buffers_builder(g))
    IN IF t.result = "Err" THEN g ELSE t.sink.buffers

\* LyonMeshBuilder::with
with(g, shape, kind, attributes) ==
    ShapeBuild(shape, kind, attributes, buffers_builder(g)).buffers

\* Variant: the normal and UV projections pick the wrong fields.
build_with_topology_misprojected(g, topology) ==
    [topology |-> topology,
     positions |-> [i \in 1 .. Len(g.vertices) |-> g.vertices[i].pos],
     normals |-> [i \in 1 .. Len(g.vertices) |-> g.vertices[i].pos],
     uvs |-> [i \in 1 .. Len(g.vertices) |-> g.vertices[i].uv],
     indices |-> g.indices]

\* LyonMeshBuilder::build_with_topology
build_with_topology(g, topology) ==
    [topology |-> topology,
     positions |-> [i \in 1 .. Len(g.vertices) |-> g.vertices[i].pos],
     normals |-> [i \in 1 .. Len(g.vertices) |-> g.vertices[i].norm],
     uvs |-> [i \in 1 .. Len(g.vertices) |-> g.vertices[i].uv],
     indices |-> g.indices]

\* LyonMeshBuilder::build
build(g) == build_with_topology(g, "TriangleStrip")

\* Variant: the one-shot path finalizes as a triangle list.
with_only_triangle_list(shape, kind, attributes) ==
    build_with_topology(with(New, shape, kind, attributes), "TriangleList")

\* LyonMeshBuilder::with_only
with_only(shape, kind, attributes) ==
    build(with(New, shape, kind, attributes))

(***************************************************************************)
(* The builder as a state machine.                                         *)
(***************************************************************************)
NoCall == [op |-> "new", topology |-> None]
NoVc == [point |-> None, attributes |-> None, via |-> None, out |-> None]

Init ==
    /\ geometry = New
    /\ prev = New
    /\ added = <<>>
    /\ phase = "building"
    /\ call = NoCall
    /\ mesh = None
    /\ vc = NoVc

\* builder = builder.with(shape)
With(shape, kind, attributes) ==
    /\ phase = "building"
    /\ Len(added) < MaxShapes
    /\ geometry' = with(geometry, shape, kind, attributes)
    /\ prev' = geometry
    /\ added' = Append(added, shape)
    /\ call' = [op |-> "with", topology |-> None]
    /\ UNCHANGED <<phase, mesh, vc>>

\* builder.build()
Build ==
    /\ phase = "building"
    /\ mesh' = build(geometry)
    /\ phase' = "built"
    /\ call' = [op |-> "build", topology |-> None]
    /\ UNCHANGED <<geometry, prev, added, vc>>

\* builder.build_with_topology(topology)
BuildWithTopology(topology) ==
    /\ phase = "building"
    /\ mesh' = build_with_topology(geometry, topology)
    /\ phase' = "built"
    /\ call' = [op |-> "build_with_topology", topology |-> topology]
    /\ UNCHANGED <<geometry, prev, added, vc>>

\* LyonMeshBuilder::with_only(shape): no builder exists beforehand.
WithOnly(shape, kind, attributes) ==
    /\ phase = "building"
    /\ added = <<>>
    /\ mesh' = with_only(shape, kind, attributes)
    /\ geometry' = with(New, shape, kind, attributes)
    /\ prev' = New
    /\ added' = <<shape>>
    /\ phase' = "built"
    /\ call' = [op |-> "with_only", topology |-> None]
    /\ UNCHANGED vc

Next ==
    \/ \E shape \in Shapes, kind \in Kinds, attributes \in Attrs :
          With(shape, kind, attributes)
    \/ Build
    \/ \E topology \in Topologies : BuildWithTopology(topology)
    \/ \E shape \in Shapes, kind \in Kinds, attributes \in Attrs :
          WithOnly(shape, kind, attributes)

Spec == Init /\ [][Next]_vars

(***************************************************************************)
(* The vertex constructor on its own: one point, one attribute value, one  *)
(* of the three callbacks.                                                 *)
(***************************************************************************)
InitVertex ==
    /\ geometry = New
    /\ prev = New
    /\ added = <<>>
    /\ phase = "building"
    /\ call = NoCall
    /\ mesh = None
    /\ vc \in [point : Coord \X Coord, attributes : Attrs, via : {None}, out : {None}]

CallBasic ==
    /\ vc.via = None
    /\ vc' = [vc EXCEPT !.via = "basic", !.out = new_vertex_basic(vc.point)]
    /\ UNCHANGED <<geometry, prev, added, phase, call, mesh>>

CallFill ==
    /\ vc.via = None
    /\ vc' = [vc EXCEPT !.via = "fill", !.out = new_vertex_fill(vc.point, vc.attributes)]
    /\ UNCHANGED <<geometry, prev, added, phase, call, mesh>>

CallStroke ==
    /\ vc.via = None
    /\ vc' = [vc EXCEPT !.via = "stroke", !.out = new_vertex_stroke(vc.point, vc.attributes)]
    /\ UNCHANGED <<geometry, prev, added, phase, call, mesh>>

NextVertex == CallBasic \/ CallFill \/ CallStroke

SpecVertex == InitVertex /\ [][NextVertex]_vars

(***************************************************************************)
(* Properties.                                                             *)
(***************************************************************************)
\* The shape of the latest with call (added is not empty).
Last == added[Len(added)]

IsPrefix(s, t) == Len(s) <= Len(t) /\ SubSeq(t, 1, Len(s)) = s

\* The corners of a pass's triangles, flattened, in pass-local numbering.
LocalIndices(shape) ==
    [i \in 1 .. 3 * Len(Tris(shape)) |-> Tris(shape)[((i - 1) \div 3) + 1][((i - 1) % 3) + 1]]

\* C1: every stored index is in [0, number of vertices), after each with
\* call and in the mesh that build produces.
C1_IndicesInRange ==
    /\ \A i \in DOMAIN geometry.indices :
          geometry.indices[i] >= 0 /\ geometry.indices[i] < Len(geometry.vertices)
    /\ phase = "built" =>
          \A i \in DOMAIN mesh.indices :
             mesh.indices[i] >= 0 /\ mesh.indices[i] < Len(mesh.positions)

\* C1 witness: two shapes with triangles were added and the mesh was built.
C1_Witness ==
    /\ phase = "built"
    /\ Len(added) = 2
    /\ added[1].n >= 3 /\ added[1].outcome = "ok"
    /\ added[2].n >= 3 /\ added[2].outcome = "ok"
    /\ Len(mesh.indices) >= 6

\* C2: the indices a pass leaves in the buffer are its local indices plus B,
\* the number of vertices the buffer held before the pass began.
C2_LocalPlusBase ==
    (Len(added) >= 1 /\ Last.outcome /= "abort") =>
        geometry.indices =
            prev.indices \o
            [i \in 1 .. Len(LocalIndices(Last)) |-> LocalIndices(Last)[i] + Len(prev.vertices)]

\* C2 witness: a second shape with a triangle was added after a non-empty first.
C2_Witness ==
    /\ Len(added) = 2
    /\ call.op = "with"
    /\ Len(prev.vertices) > 0
    /\ Last.n >= 3 /\ Last.outcome = "ok"

\* C10: what the buffer held before a with call is a prefix of what it
\* holds after it, whether the pass succeeded or failed.
C10_AppendOnly ==
    Len(added) >= 1 =>
        /\ IsPrefix(prev.vertices, geometry.vertices)
        /\ IsPrefix(prev.indices, geometry.indices)

\* C10 witness: a failing pass that had written vertices and triangles and
\* then aborted was added to a buffer that already held a shape.
C10_Witness ==
    /\ Len(added) = 2
    /\ call.op = "with"
    /\ Len(prev.vertices) >= 3 /\ Len(prev.indices) >= 3
    /\ Last.n >= 3 /\ Last.outcome = "abort"

\* C9: the mesh holds the vertex fields in three parallel arrays, the index
\* list as accumulated, and the requested topology (TriangleStrip for build).
C9_BuildProjects ==
    phase = "built" =>
        /\ Len(mesh.positions) = Len(geometry.vertices)
        /\ Len(mesh.normals) = Len(geometry.vertices)
        /\ Len(mesh.uvs) = Len(geometry.vertices)
        /\ \A i \in 1 .. Len(geometry.vertices) :
              /\ mesh.positions[i] = geometry.vertices[i].pos
              /\ mesh.normals[i] = geometry.vertices[i].norm
              /\ mesh.uvs[i] = geometry.vertices[i].uv
        /\ mesh.indices = geometry.indices
        /\ call.op = "build_with_topology" => mesh.topology = call.topology
        /\ call.op = "build" => mesh.topology = "TriangleStrip"

\* C9 witness: a non-empty builder was finalized with a topology of the caller's.
C9_Witness ==
    /\ phase = "built"
    /\ call = [op |-> "build_with_topology", topology |-> "LineList"]
    /\ Len(geometry.vertices) >= 3
    /\ Len(geometry.indices) >= 3

\* C8: whichever callback is used and whatever the attributes, the vertex
\* of (x, y) has position (x, y, 0), normal (0, 0, 1) and uv (x, y).
C8_VertexOfPoint ==
    vc.via /= None =>
        vc.out = [pos |-> <<vc.point[1], vc.point[2], 0>>,
                  norm |-> <<0, 0, 1>>,
                  uv |-> <<vc.point[1], vc.point[2]>>]

\* C8 witness: the stroke callback was invoked with x /= y.
C8_Witness ==
    /\ vc.via = "stroke"
    /\ vc.attributes = "attrB"
    /\ vc.point = <<1, -2>>

\* What the tessellation routine of the latest with call returned.
LastResult == Tessellate(Last, "basic", "attrA", buffers_builder(prev)).result

\* C3, as claimed: after a failed pass, with hands its caller something no
\* successful pass on the same builder would have handed it.
C3_FailureSurfaces ==
    (Len(added) >= 1 /\ call.op = "with" /\ LastResult = "Err") =>
        \A s \in Shapes, k \in Kinds, a \in Attrs :
            Tessellate(s, k, a, buffers_builder(prev)).result = "Ok" =>
                with(prev, s, k, a) /= geometry

\* C3, amended: the failure is dropped. with returns the builder as the
\* failed pass left it: as a successful pass with the same writes would
\* have, or as it was before the call when the pass aborted.
C3_FailureDiscarded ==
    (Len(added) >= 1 /\ LastResult = "Err") =>
        /\ Last.outcome = "partial" =>
              \A k \in Kinds, a \in Attrs :
                 geometry = with(prev, [Last EXCEPT !.outcome = "ok"], k, a)
        /\ Last.outcome = "abort" => geometry = prev

\* C3 witness: a pass that failed after writing was added to a non-empty builder.
C3_Witness ==
    /\ Len(added) = 2
    /\ call.op = "with"
    /\ Len(prev.vertices) > 0
    /\ Last.n >= 3 /\ Last.outcome = "partial"

\* C4: with_only(s) and new().with(s).build() give the same mesh.
C4_WithOnlyIsChain ==
    /\ (call.op = "build" /\ Len(added) = 1) =>
          \A k \in Kinds, a \in Attrs : mesh = with_only(added[1], k, a)
    /\ call.op = "with_only" =>
          \A k \in Kinds, a \in Attrs : mesh = build(with(New, added[1], k, a))

\* C4 witness: one shape with a triangle was added to a new builder, then build.
C4_Witness ==
    /\ call.op = "build"
    /\ Len(added) = 1
    /\ added[1].n >= 3 /\ added[1].outcome = "ok"
    /\ Len(mesh.indices) >= 3

\* C5: a pass that writes K vertices and M triangles makes the finalized
\* mesh K vertices and 3M indices larger than it would have been.
C5_AddsKAndThreeM ==
    (Len(added) >= 1 /\ Last.outcome = "ok") =>
        LET after == IF phase = "built" THEN mesh ELSE build(geometry)
            before == build(prev)
        IN /\ Len(after.positions) = Len(before.positions) + Last.n
           /\ Len(after.normals) = Len(before.normals) + Last.n
           /\ Len(after.uvs) = Len(before.uvs) + Last.n
           /\ Len(after.indices) = Len(before.indices) + 3 * Len(Tris(Last))

\* C5 witness: such a pass was added after another shape, and the mesh built.
C5_Witness ==
    /\ phase = "built"
    /\ Len(added) = 2
    /\ Len(prev.vertices) >= 3 /\ Len(prev.indices) >= 3
    /\ Last.n = 3 /\ Last.outcome = "ok"

RECURSIVE SumAlone(_, _, _)
\* The vertex counts of the shapes, each built alone with with_only.
SumAlone(shapes, kind, attributes) ==
    IF shapes = <<>> THEN 0
    ELSE Len(with_only(Head(shapes), kind, attributes).positions)
         + SumAlone(Tail(shapes), kind, attributes)

\* C6: the vertex count of the builder, and of the finalized mesh, is the
\* sum of the vertex counts of its shapes built alone.
C6_VertexCountIsSum ==
    /\ phase = "building" => Len(geometry.vertices) = SumAlone(added, "basic", "attrA")
    /\ phase = "built" => Len(mesh.positions) = SumAlone(added, "stroke", "attrB")

\* C6 witness: two shapes with different vertex counts, finalized.
C6_Witness ==
    /\ phase = "built"
    /\ Len(added) = 2
    /\ added[1].n = 3 /\ added[1].outcome = "ok"
    /\ added[2].n = 2 /\ added[2].outcome = "ok"

RECURSIVE Accumulate(_, _, _, _)
\* The buffer after adding the shapes, in the order given, to g.
Accumulate(g, shapes, kind, attributes) ==
    IF shapes = <<>> THEN g
    ELSE Accumulate(with(g, Head(shapes), kind, attributes), Tail(shapes), kind, attributes)

Perms(n) == {f \in [1 .. n -> 1 .. n] : \A i, j \in 1 .. n : f[i] = f[j] => i = j}

\* The multiset of the entries of a sequence.
BagOf(seq) ==
    [x \in {seq[i] : i \in DOMAIN seq} |-> Cardinality({i \in DOMAIN seq : seq[i] = x})]

\* The triangles of a buffer, each as the triple of vertices it refers to.
Triangles(g) ==
    [t \in 1 .. (Len(g.indices) \div 3) |->
        <<g.vertices[g.indices[3 * t - 2] + 1],
          g.vertices[g.indices[3 * t - 1] + 1],
          g.vertices[g.indices[3 * t] + 1]>>]

\* The vertices of a mesh, each as its three attributes.
MeshVertices(m) ==
    [i \in 1 .. Len(m.positions) |->
        [pos |-> m.positions[i], norm |-> m.normals[i], uv |-> m.uvs[i]]]

\* The buffer a mesh's arrays amount to.
MeshBuffers(m) == [vertices |-> MeshVertices(m), indices |-> m.indices]

\* C7: the same shapes added in any other order give the same multiset of
\* vertices and the same multiset of triangles read as vertex triples, in
\* the builder and in the mesh build makes of it.
C7_OrderIndependent ==
    call.op \in {"with", "build"} =>
        \A f \in Perms(Len(added)) :
            LET other == Accumulate(New, [i \in 1 .. Len(added) |-> added[f[i]]], "basic", "attrA")
                mine == IF call.op = "build" THEN MeshBuffers(mesh) ELSE geometry
                theirs == IF call.op = "build" THEN MeshBuffers(build(other)) ELSE other
            IN /\ BagOf(theirs.vertices) = BagOf(mine.vertices)
               /\ BagOf(Triangles(theirs)) = BagOf(Triangles(mine))

\* C7 witness: two different shapes with triangles were added.
C7_Witness ==
    /\ Len(added) = 2
    /\ call.op = "with"
    /\ added[1].n = 3 /\ added[1].outcome = "ok" /\ added[1].at = <<0, 1>>
    /\ added[2].n = 3 /\ added[2].outcome = "ok" /\ added[2].at = <<1, 0>>

====
